---- MODULE Spec2Model ----
(***************************************************************************)
(* gp2togp3.py: list the persistent volume claims of a cluster, look up    *)
(* the EBS volume behind each one, filter, print a table, and optionally   *)
(* migrate the gp2 volumes to gp3 after an interactive confirmation.       *)
(*                                                                         *)
(* Python strings that the program takes apart (volume ids) are sequences  *)
(* of one-character strings; the other strings are TLA+ strings.  Python's *)
(* None is the value None (for volume ids: NoneId).                        *)
(***************************************************************************)
EXTENDS Naturals, Sequences, FiniteSets, TLC

VARIABLES
    pc,                 \* position of the run
    args,               \* the parsed command line (argparse namespace)
    pvc_list,           \* main: pvc_list
    i,                  \* main: position of the `for pvc in pvc_list` loop
    table_data,         \* main: table_data
    volumes_to_migrate, \* main: volumes_to_migrate
    j,                  \* main: position of the `for volume_id in volumes_to_migrate` loop
    response,           \* main: response (the answer typed at the prompt)
    calls,              \* every cluster, provider and console call made, in order
    rowinfo,            \* per row of table_data: how its claim was resolved and inspected
    printed,            \* the table handed to tabulate, <<>> while nothing was printed
    raised              \* the exception that left main unhandled, None if none

vars == <<pc, args, pvc_list, i, table_data, volumes_to_migrate, j, response,
          calls, rowinfo, printed, raised>>

\* ---------------------------------------------------------------- bounds

MaxClaims == 2

\* ---------------------------------------------------------------- values

None == "<None>"
NoneId == <<None>>
EmptyStr == << >>

\* Python truthiness of an optional string.
Truthy(s) == s # None /\ s # ""

\* 'aws://z/v1' and 'v1', 'v2' as character sequences.
AwsUri == <<"a","w","s",":","/","/","z","/","v","1">>
Vol1 == <<"v","1">>
Vol2 == <<"v","2">>
AwsScheme == <<"a","w","s",":","/","/">>

\* str.startswith
StartsWith(s, p) == Len(s) >= Len(p) /\ SubSeq(s, 1, Len(p)) = p

\* str.split('/')[-1]: what follows the last '/', the whole string without one.
RECURSIVE LastSegment(_)
LastSegment(s) ==
    IF s = << >> THEN << >>
    ELSE IF s[Len(s)] = "/" THEN << >>
    ELSE Append(LastSegment(SubSeq(s, 1, Len(s) - 1)), s[Len(s)])

\* str.upper on the answers the prompt is given.
Upper(s) ==
    CASE s = "yes" -> "YES"
      [] s = "no"  -> "NO"
      [] OTHER     -> s

\* ---------------------------------------------------------------- the cluster and the provider

ClaimNames == <<"a", "b", "c", "d">>
StorageClassNames == {None, "default"}
VolumeNames == {None, "pv-a", "pv-b", "pv-c"}
Tiers == {"gp2", "gp3"}

\* pv.spec of the persistent volumes of the cluster: an in-tree EBS volume
\* ('aws://zone/id'), a CSI volume (bare handle), a volume of another kind.
PersistentVolume(name) ==
    CASE name = "pv-a" -> [aws_elastic_block_store |-> AwsUri, csi |-> NoneId]
      [] name = "pv-b" -> [aws_elastic_block_store |-> NoneId, csi |-> Vol2]
      [] OTHER         -> [aws_elastic_block_store |-> NoneId, csi |-> NoneId]

\* What list_persistent_volume_claim_* can return: the claims in cluster order.
Claim(k, volume_name, sc) ==
    [name |-> ClaimNames[k], namespace |-> "x",
     volume_name |-> volume_name, storage_class_name |-> sc]

ClaimLists ==
    UNION { { [k \in 1..n |-> Claim(k, v[k], c[k])] :
                v \in [1..n -> VolumeNames], c \in [1..n -> StorageClassNames] } :
            n \in 0..MaxClaims }

\* What read_persistent_volume can do: return the volume or raise ApiException.
ReadPersistentVolume(name) ==
    { [exc |-> FALSE, status |-> 200, pv |-> PersistentVolume(name)] }
    \cup { [exc |-> TRUE, status |-> st, pv |-> PersistentVolume(None)] : st \in {404, 500} }

\* What describe_volumes can do under a volume-id filter and an optional
\* volume-type filter: raise, or return the volumes that match both filters.
DescribeVolumes(type) ==
    { [exc |-> TRUE, Volumes |-> << >>] }
    \cup { [exc |-> FALSE, Volumes |-> << >>] }
    \cup { [exc |-> FALSE, Volumes |-> <<t>>] : t \in { u \in Tiers : type = None \/ u = type } }

\* What modify_volume can do: answer 200, answer another status, raise
\* botocore ClientError, raise another botocore error (a connection error).
ModifyVolume == {"200", "non200", "ClientError", "OtherError"}

\* What create_tags can do.
CreateTags == {"ok", "ClientError", "OtherError"}

\* What the operator can type at the prompt.
Answers == {"YES", "yes", "NO", ""}

\* What the command line can hold.
Arguments ==
    [storage_class : {None, "default"}, volume_type : {None, "", "gp2", "gp3"},
     namespace : {None, "x"}, migrate : BOOLEAN]

\* ---------------------------------------------------------------- get_aws_volume_info

\* The volume id as sent to the provider.
NormalizeId(volume_id) ==
    IF StartsWith(volume_id, AwsScheme) THEN LastSegment(volume_id) ELSE volume_id

\* Variant: zero matching volumes keeps the id, as the error path does.
get_aws_volume_info_KeepsId(volume_id, resp) ==
    IF volume_id = NoneId THEN <<EmptyStr, "">>
    ELSE IF resp.exc \/ Len(resp.Volumes) = 0 THEN <<NormalizeId(volume_id), "">>
    ELSE <<NormalizeId(volume_id), resp.Volumes[1]>>

\* The (volume id, volume type) pair returned; resp is the provider's answer
\* to the describe_volumes call, made only when volume_id is not None.
get_aws_volume_info(volume_id, resp) ==
    IF volume_id = NoneId THEN <<EmptyStr, "">>
    ELSE IF resp.exc THEN <<NormalizeId(volume_id), "">>
    ELSE IF Len(resp.Volumes) = 0 THEN <<EmptyStr, "">>
    ELSE <<NormalizeId(volume_id), resp.Volumes[1]>>

\* The volume id main takes from pv.spec.
VolumeIdOf(pv) ==
    IF pv.aws_elastic_block_store # NoneId THEN pv.aws_elastic_block_store
    ELSE IF pv.csi # NoneId THEN pv.csi
    ELSE NoneId

\* ---------------------------------------------------------------- main: the filters

\* `if storage_class and pvc.spec.storage_class_name != storage_class: continue`
StorageClassSkips(storage_class, storage_class_name) ==
    Truthy(storage_class) /\ storage_class_name # storage_class

\* Variant: the filter is applied only to volumes whose type is known.
VolumeTypeSkips_KnownOnly(volume_type_filter, aws_vol_type) ==
    Truthy(volume_type_filter) /\ aws_vol_type # "" /\ aws_vol_type # volume_type_filter

\* Variant: volumes whose type is unknown are dropped as well.
VolumeTypeSkips_DropsUnknown(volume_type_filter, aws_vol_type) ==
    \/ aws_vol_type = ""
    \/ Truthy(volume_type_filter) /\ aws_vol_type # volume_type_filter

\* `if volume_type_filter and aws_vol_type != volume_type_filter: continue`
VolumeTypeSkips(volume_type_filter, aws_vol_type) ==
    Truthy(volume_type_filter) /\ aws_vol_type # volume_type_filter

\* `if migrate and aws_vol_type == 'gp2'`
ToMigrate(migrate, aws_vol_type) == migrate /\ aws_vol_type = "gp2"

\* The row appended to table_data.
Row(pvc, aws_volume_id, aws_vol_type) ==
    <<pvc.name, aws_volume_id, pvc.namespace, pvc.volume_name,
      IF Truthy(pvc.storage_class_name) THEN pvc.storage_class_name ELSE "None",
      aws_vol_type>>

\* How the provider's answer reads, for the record kept of each row.
Inspection(volume_id, resp) ==
    IF volume_id = NoneId THEN "none"
    ELSE IF resp.exc THEN "error"
    ELSE IF Len(resp.Volumes) = 0 THEN "zero"
    ELSE "found"

Call(op, at, id, result) == [op |-> op, at |-> at, id |-> id, result |-> result]

\* ---------------------------------------------------------------- the run

Init ==
    /\ pc = "cli"
    /\ args = [storage_class |-> None, volume_type |-> None, namespace |-> None,
               migrate |-> FALSE]
    /\ pvc_list = << >>
    /\ i = 1
    /\ table_data = << >>
    /\ volumes_to_migrate = << >>
    /\ j = 1
    /\ response = None
    /\ calls = << >>
    /\ rowinfo = << >>
    /\ printed = << >>
    /\ raised = None

\* Variant: `and` for `or`.
MissingFilter_Both(a) == a.volume_type = None /\ a.storage_class = None

\* `args.volume_type is None or args.storage_class is None`
MissingFilter(a) == a.volume_type = None \/ a.storage_class = None

\* __main__: parse the command line, refuse --migrate without both filters,
\* otherwise call main.
ParseArgs ==
    /\ pc = "cli"
    /\ \E a \in Arguments :
         /\ args' = a
         /\ pc' = IF a.migrate /\ MissingFilter(a)
                  THEN "rejected" ELSE "list"
    /\ UNCHANGED <<pvc_list, i, table_data, volumes_to_migrate, j, response, calls,
                   rowinfo, printed, raised>>

\* main: list the claims of the namespace or of the whole cluster; an error of
\* the listing call is not handled.
ListClaims ==
    /\ pc = "list"
    /\ LET op == IF args.namespace = None
                 THEN "list_persistent_volume_claim_for_all_namespaces"
                 ELSE "list_namespaced_persistent_volume_claim"
       IN \/ /\ \E l \in ClaimLists : pvc_list' = l
             /\ calls' = Append(calls, Call(op, 0, EmptyStr, "ok"))
             /\ pc' = "build"
             /\ UNCHANGED raised
          \/ /\ calls' = Append(calls, Call(op, 0, EmptyStr, "ApiException"))
             /\ raised' = "ApiException"
             /\ pc' = "crashed"
             /\ UNCHANGED pvc_list
    /\ UNCHANGED <<args, i, table_data, volumes_to_migrate, j, response, rowinfo, printed>>

\* main: one pass of `for pvc in pvc_list`, with the provider's answer resp.
Inspect(pvc, pv, resp) ==
    LET volume_id == VolumeIdOf(pv)
        info == get_aws_volume_info(volume_id, resp)
        aws_volume_id == info[1]
        aws_vol_type == info[2]
        read == Call("read_persistent_volume", i, EmptyStr, "ok")
        describe == Call("describe_volumes", i, NormalizeId(volume_id),
                         Inspection(volume_id, resp))
    IN /\ calls' = IF volume_id = NoneId THEN Append(calls, read)
                   ELSE calls \o <<read, describe>>
       /\ IF \/ StorageClassSkips(args.storage_class, pvc.storage_class_name)
             \/ VolumeTypeSkips(args.volume_type, aws_vol_type)
          THEN UNCHANGED <<table_data, rowinfo, volumes_to_migrate>>
          ELSE /\ table_data' = Append(table_data, Row(pvc, aws_volume_id, aws_vol_type))
               /\ rowinfo' = Append(rowinfo, [at |-> i, resolved |-> volume_id # NoneId,
                                              inspect |-> Inspection(volume_id, resp)])
               /\ volumes_to_migrate' =
                    IF ToMigrate(args.migrate, aws_vol_type)
                    THEN Append(volumes_to_migrate, aws_volume_id)
                    ELSE volumes_to_migrate
       /\ UNCHANGED <<pc, raised>>

\* Variant: only a 404 is handled, any other ApiException leaves main.
SkipClaim_Reraise(status) ==
    /\ calls' = Append(calls, Call("read_persistent_volume", i, EmptyStr,
                                   IF status = 404 THEN "404" ELSE "error"))
    /\ pc' = IF status = 404 THEN pc ELSE "crashed"
    /\ raised' = IF status = 404 THEN raised ELSE "ApiException"
    /\ UNCHANGED <<table_data, rowinfo, volumes_to_migrate>>

\* main: `except ApiException`: print the error, go on with the next claim.
SkipClaim(status) ==
    /\ calls' = Append(calls, Call("read_persistent_volume", i, EmptyStr,
                                   IF status = 404 THEN "404" ELSE "error"))
    /\ UNCHANGED <<table_data, rowinfo, volumes_to_migrate, pc, raised>>

ProcessClaim ==
    /\ pc = "build"
    /\ i <= Len(pvc_list)
    /\ LET pvc == pvc_list[i]
       IN IF pvc.volume_name = None
          THEN UNCHANGED <<table_data, rowinfo, volumes_to_migrate, calls, pc, raised>>
          ELSE \E got \in ReadPersistentVolume(pvc.volume_name) :
                 IF got.exc
                 THEN SkipClaim(got.status)
                 ELSE \E resp \in DescribeVolumes(args.volume_type) :
                        /\ VolumeIdOf(got.pv) = NoneId => resp = [exc |-> FALSE, Volumes |-> << >>]
                        /\ Inspect(pvc, got.pv, resp)
    /\ i' = i + 1
    /\ UNCHANGED <<args, pvc_list, j, response, printed>>

\* Variant: the answer is not looked at.
Declined_Never(r) == FALSE

\* `if response.upper() != 'YES'`
Declined(r) == Upper(r) # "YES"

\* main: with --migrate and volumes to migrate, list them and ask; anything
\* but YES (in any case) prints 'Migration cancelled.' and returns.
AwaitConfirmation ==
    /\ pc = "build"
    /\ i > Len(pvc_list)
    /\ args.migrate /\ volumes_to_migrate # << >>
    /\ \E r \in Answers :
         /\ response' = r
         /\ calls' = Append(calls, Call("input", 0, EmptyStr, r))
         /\ pc' = IF Declined(r) THEN "cancelled" ELSE "migrate"
    /\ UNCHANGED <<args, pvc_list, i, table_data, volumes_to_migrate, j, rowinfo,
                   printed, raised>>

\* main: nothing to migrate, go on to the table.
NoMigration ==
    /\ pc = "build"
    /\ i > Len(pvc_list)
    /\ ~(args.migrate /\ volumes_to_migrate # << >>)
    /\ pc' = "report"
    /\ UNCHANGED <<args, pvc_list, i, table_data, volumes_to_migrate, j, response,
                   calls, rowinfo, printed, raised>>

\* migrate_gp2_to_gp3: the calls made for one volume and the exception that
\* leaves the function, m and t being what modify_volume and create_tags do.
migrate_gp2_to_gp3(volume_id, at, m, t) ==
    LET modify == Call("modify_volume", at, volume_id, m)
        tags == Call("create_tags", at, volume_id, t)
    IN CASE m = "200" ->
              [calls |-> <<modify, tags>>,
               raised |-> IF t = "OtherError" THEN "OtherError" ELSE None]
         [] m = "OtherError" -> [calls |-> <<modify>>, raised |-> "OtherError"]
         [] OTHER -> [calls |-> <<modify>>, raised |-> None]

\* main: one pass of `for volume_id in volumes_to_migrate`; main catches
\* ClientError only, as migrate_gp2_to_gp3 does.
MigrateOne ==
    /\ pc = "migrate"
    /\ j <= Len(volumes_to_migrate)
    /\ \E m \in ModifyVolume, t \in CreateTags :
         LET done == migrate_gp2_to_gp3(volumes_to_migrate[j], j, m, t)
         IN /\ calls' = calls \o done.calls
            /\ raised' = done.raised
            /\ pc' = IF done.raised # None THEN "crashed" ELSE "migrate"
    /\ j' = j + 1
    /\ UNCHANGED <<args, pvc_list, i, table_data, volumes_to_migrate, response,
                   rowinfo, printed>>

\* main: print the table.
PrintTable ==
    /\ \/ pc = "report"
       \/ pc = "migrate" /\ j > Len(volumes_to_migrate)
    /\ printed' = <<table_data>>
    /\ pc' = "done"
    /\ UNCHANGED <<args, pvc_list, i, table_data, volumes_to_migrate, j, response,
                   calls, rowinfo, raised>>

Next ==
    \/ ParseArgs
    \/ ListClaims
    \/ ProcessClaim
    \/ AwaitConfirmation
    \/ NoMigration
    \/ MigrateOne
    \/ PrintTable

Spec == Init /\ [][Next]_vars

\* ---------------------------------------------------------------- properties

Mutating == {"modify_volume", "create_tags"}
CallsAt(op, at) == { k \in DOMAIN calls : calls[k].op = op /\ calls[k].at = at }
RowsAt(at) == { k \in DOMAIN rowinfo : rowinfo[k].at = at }
Asked == response # None
ModifyCalls == SelectSeq(calls, LAMBDA c : c.op = "modify_volume")

\* C1: when migration is requested, the list of volumes to migrate is not
\* empty and the answer at the prompt is not YES, the run ends there and no
\* modify_volume and no create_tags call is ever made.
C1_DeclinedMakesNoMutatingCall ==
    (args.migrate /\ volumes_to_migrate # << >> /\ Asked /\ Upper(response) # "YES")
        => /\ pc = "cancelled"
           /\ \A k \in DOMAIN calls : calls[k].op \notin Mutating

C1_Witness ==
    /\ pc = "cancelled"
    /\ response = "NO"
    /\ Len(volumes_to_migrate) = 2

\* C2: when the answer at the prompt is not YES, the run still prints the
\* table, holding every row built before the prompt.
C2_DeclinedStillReports ==
    pc = "cancelled" => printed = <<table_data>>

\* C3: with a volume-type filter set, every row of the table has that volume
\* type, and no row comes from a claim whose inspection gave the empty type
\* (no descriptor, provider error, zero matches).
C3_RowsMatchTierFilter ==
    Truthy(args.volume_type) =>
        \A k \in DOMAIN table_data :
            /\ table_data[k][6] = args.volume_type
            /\ table_data[k][6] # ""
            /\ rowinfo[k].inspect = "found"

C3_Witness ==
    /\ args.volume_type = "gp2"
    /\ i = 3
    /\ CallsAt("describe_volumes", 1) # {}
    /\ \A k \in CallsAt("describe_volumes", 1) : calls[k].result = "error"
    /\ RowsAt(1) = {}
    /\ RowsAt(2) # {}

\* C4: during a confirmed migration an error raised by modify_volume or by
\* create_tags for one volume is absorbed: nothing leaves main, modify_volume
\* is still called for every later volume of the list, and the table is printed.
C4_MutationErrorsAbsorbed ==
    \A k \in DOMAIN calls :
        (calls[k].op \in Mutating /\ calls[k].result \in {"ClientError", "OtherError"})
            => /\ raised = None
               /\ pc # "crashed"
               /\ pc = "done" =>
                    \A l \in (calls[k].at + 1)..Len(volumes_to_migrate) :
                        CallsAt("modify_volume", l) # {}

\* C5: a command line with --migrate and without --storage-class or without
\* --volume-type is rejected before any cluster or provider call.
C5_MigrateNeedsBothFilters ==
    (args.migrate /\ (args.volume_type = None \/ args.storage_class = None))
        => /\ pc = "rejected"
           /\ calls = << >>
           /\ pvc_list = << >>

C5_Witness ==
    /\ pc = "rejected"
    /\ args.migrate
    /\ args.storage_class = "default"
    /\ args.volume_type = None

\* C6 as stated: the volume id of a row is empty whenever the volume has no
\* recognised descriptor, the provider query raised, or it returned no volume.
C6_IdEmptyOnAnyFailure ==
    \A k \in DOMAIN table_data :
        (~rowinfo[k].resolved \/ rowinfo[k].inspect \in {"error", "zero"})
            => table_data[k][2] = EmptyStr

\* The volume id the claim at position at of pvc_list resolves to.
ResolvedId(at) == NormalizeId(VolumeIdOf(PersistentVolume(pvc_list[at].volume_name)))

\* C6 as amended: the volume id of a row is empty when the volume has no
\* recognised descriptor or the provider returned no volume; when the provider
\* query raised, the row keeps the bare volume id, with an empty volume type.
C6_IdEmptyUnlessQueryRaised ==
    \A k \in DOMAIN table_data :
        /\ (~rowinfo[k].resolved \/ rowinfo[k].inspect = "zero")
              => table_data[k][2] = EmptyStr /\ table_data[k][6] = ""
        /\ rowinfo[k].inspect = "error"
              => /\ table_data[k][2] = ResolvedId(rowinfo[k].at)
                 /\ table_data[k][2] \in {Vol1, Vol2}
                 /\ table_data[k][6] = ""

C6_Witness ==
    /\ Len(table_data) = 2
    /\ rowinfo[1].inspect = "zero"
    /\ rowinfo[2].inspect = "error"
    /\ table_data[2][2] = Vol1

\* The claim at position at has a bound volume whose lookup succeeded and
\* passes the storage-class filter.
Eligible(at) ==
    /\ pvc_list[at].volume_name # None
    /\ \E k \in CallsAt("read_persistent_volume", at) : calls[k].result = "ok"
    /\ (args.storage_class = None \/ args.storage_class = ""
        \/ pvc_list[at].storage_class_name = args.storage_class)

\* C7: without a volume-type filter, every processed claim with a bound
\* volume, a successful lookup and a matching storage class has exactly one
\* row, whatever identity resolution and inspection gave.
C7_LookupFailuresKeepTheirRow ==
    (args.volume_type = None \/ args.volume_type = "") =>
        \A at \in 1..(i - 1) : Eligible(at) => Cardinality(RowsAt(at)) = 1

C7_Witness ==
    /\ args.volume_type = None
    /\ args.storage_class = "default"
    /\ i = 3
    /\ Eligible(1) /\ Eligible(2)
    /\ rowinfo[1].inspect = "none"
    /\ rowinfo[2].inspect = "error"

\* The step just taken is a bound-volume lookup that raised ApiException.
LookupFailed ==
    /\ pc = "build"
    /\ Len(calls') > Len(calls)
    /\ calls'[Len(calls')].op = "read_persistent_volume"
    /\ calls'[Len(calls')].result \in {"404", "error"}

\* C8: a bound-volume lookup that raises ApiException (404 or other) adds no
\* row, no volume to migrate and no provider call for that claim, and leaves
\* the loop at the next claim with nothing raised.
C8_FailedLookupSkipsOneClaim ==
    [][LookupFailed =>
          /\ table_data' = table_data
          /\ rowinfo' = rowinfo
          /\ volumes_to_migrate' = volumes_to_migrate
          /\ Len(calls') = Len(calls) + 1
          /\ \A k \in DOMAIN calls' : ~(calls'[k].op = "describe_volumes" /\ calls'[k].at = i)
          /\ i' = i + 1
          /\ pc' = "build"
          /\ raised' = None]_vars

C8_Witness ==
    /\ i = 3
    /\ \E k \in CallsAt("read_persistent_volume", 1) : calls[k].result = "error"
    /\ CallsAt("describe_volumes", 1) = {}
    /\ RowsAt(1) = {}
    /\ RowsAt(2) # {}
    /\ Len(volumes_to_migrate) = 1

\* C9: create_tags for a volume is called only right after modify_volume for
\* the same volume answered 200, before the next modify_volume; when
\* modify_volume answers another status or raises, create_tags is not called
\* for that volume and nothing leaves main.
C9_TagOnlyAfterSuccess ==
    \A k \in DOMAIN calls :
        /\ calls[k].op = "create_tags"
              => /\ calls[k - 1].op = "modify_volume"
                 /\ calls[k - 1].result = "200"
                 /\ calls[k - 1].at = calls[k].at
                 /\ calls[k - 1].id = calls[k].id
        /\ (calls[k].op = "modify_volume" /\ calls[k].result = "200")
              => k < Len(calls) /\ calls[k + 1].op = "create_tags"
        /\ (calls[k].op = "modify_volume" /\ calls[k].result # "200")
              => /\ CallsAt("create_tags", calls[k].at) = {}
                 /\ raised = None

\* C10: every modify_volume call is for a volume the provider reported as gp2
\* for a claim that has a row, and comes after the answer YES; once the run is
\* over the modify_volume calls are those of volumes_to_migrate, one each, in
\* order.
C10_OneAttemptPerMigratableVolume ==
    /\ \A k \in DOMAIN calls :
          calls[k].op = "modify_volume" =>
             /\ \E r \in DOMAIN table_data :
                   /\ table_data[r][2] = calls[k].id
                   /\ table_data[r][6] = "gp2"
                   /\ rowinfo[r].inspect = "found"
             /\ \E a \in 1..(k - 1) :
                   calls[a].op = "input" /\ Upper(calls[a].result) = "YES"
    /\ (pc \in {"done", "crashed"} /\ Asked) =>
          /\ Len(ModifyCalls) = Len(volumes_to_migrate)
          /\ \A l \in DOMAIN ModifyCalls : ModifyCalls[l].id = volumes_to_migrate[l]

====
